---- MODULE Spec2Model ----
(***************************************************************************)
(* Model of librarian's LibrarianController (src/librarian/controller.py): *)
(* the state machine over the single current-project slot and the calls    *)
(* the controller makes to its collaborator, LibraryService.               *)
(*                                                                         *)
(* Every controller method is an operator from a controller state to a     *)
(* controller state.  A controller state is a record                      *)
(*   cur      - self.current_project                                       *)
(*   projects - the set of project names the service recognises            *)
(*   log      - what the call has done so far, in order: service calls,    *)
(*              writes to self.current_project, console prompts            *)
(*   raised   - the exception that left the call, or NoError               *)
(* An action applies one public method to the current state, as a whole.   *)
(*                                                                         *)
(* Around it: the process (running), the controller's other fields (meta), *)
(* the metadata file librarian.yaml (file) and the clock (now).            *)
(***************************************************************************)
EXTENDS Integers, Sequences, FiniteSets, TLC

VARIABLES current_project, projects, log, raised, op, pre, lastAssigned,
          running, meta, file, now, firstCreate, persistedAt

vars == <<current_project, projects, log, raised, op, pre, lastAssigned,
          running, meta, file, now, firstCreate, persistedAt>>

(***************************************************************************)
(* Bounds and input domains.                                               *)
(***************************************************************************)
\* Python's None (an empty slot, an absent pattern).
None == "None"

\* Project names the library can hold; "a/b" and "a/c" are nested names.
Names == {"a/b", "a/c", "d"}

\* Names a caller may pass: those, and one that never names a project.
CallerNames == Names \cup {"typo"}

\* Destinations a caller passes to copy; None is "no destination given".
Destinations == {None, "b", "c", "d", "/d"}

\* Patterns a caller passes to list / delete; None is "no pattern given".
Patterns == {"*", "a/*", "z*", None}

\* What the operator types at the overwrite prompt.
Answers == {"y", "n", ""}

\* Longest explicit name list passed to delete_projects.
MaxNames == 1

\* Lines of console input available to one call (input() past them is EOF).
MaxPrompts == 2

\* Depth at which the interpreter gives up on a recursion (RecursionError).
RecursionLimit == 3

\* Lines of console input available to get_path in one startup.
MaxLines == 7

\* How far the clock runs.
MaxTime == 1

NoError == "none"

\* Python's None where a list is expected (sync_targets not given).
NoList == <<None>>

\* What the operator may type at the prompts of get_path.
Lines == {"", "x", "y", "n", "q"}

\* In the life cycle the operator types a path and confirms it.
StartupLines == {"/lib", "/ws", "y"}

\* Arguments of the constructor.
PathArgs == {None, "/lib", "/ws"}

TargetArgs == {NoList, <<>>, <<"Saves">>}

NameLists == UNION {[1..n -> Names] : n \in 0..MaxNames}

\* The orders in which the service may enumerate a library holding P.
Orders(P) == {o \in [1..Cardinality(P) -> P] :
                \A i, j \in 1..Cardinality(P) : i # j => o[i] # o[j]}

Range(f) == {f[i] : i \in DOMAIN f}

(***************************************************************************)
(* Events of the log.                                                      *)
(***************************************************************************)
Call(fn, name) == [ev |-> fn, arg |-> name]

SlotWrite(value) == [ev |-> "current_project", arg |-> value]

Prompt(answer) == [ev |-> "input", arg |-> answer]

ListCall(pattern, result) ==
    [ev |-> "list_projects", pattern |-> pattern, result |-> result]

DeleteCall(names, safe) ==
    [ev |-> "delete_projects", names |-> names, safe |-> safe]

CopyCall(source, destination, result) ==
    [ev |-> "copy_project", src |-> source, dst |-> destination,
     result |-> result]

PathPrompt(role, typed) == [ev |-> "input_path", role |-> role, arg |-> typed]

ConfirmPrompt(role, path, typed) ==
    [ev |-> "input_confirm", role |-> role, path |-> path, arg |-> typed]

Return(value) == [ev |-> "return", arg |-> value]

\* A line of console output: a project of a listing ("- name"), a message.
PrintProject(name) == [ev |-> "print_project", arg |-> name]

Say(text) == [ev |-> "print", arg |-> text]

\* print(f"Current project: {current_project}")
PrintCurrent(name) == [ev |-> "print_current", arg |-> name]

\* print(f"Invalid path to {role}: {path}. Please try again.")
PrintInvalidPath(role, path) ==
    [ev |-> "print_invalid_path", role |-> role, arg |-> path]

\* print(f"Invalid input option: {confirmation}")
PrintInvalidOption(confirmation) ==
    [ev |-> "print_invalid_option", arg |-> confirmation]

Emit(s, e) == [s EXCEPT !.log = Append(@, e)]

Raise(s, exc) == [s EXCEPT !.raised = exc]

(***************************************************************************)
(* Python strings: their characters, and the order  <  of str, which        *)
(* list.sort() uses (character by character, by code point; a proper       *)
(* prefix comes first).                                                    *)
(***************************************************************************)
Chars(str) ==
    CASE str = "a/b"  -> <<"a", "/", "b">>
      [] str = "a/c"  -> <<"a", "/", "c">>
      [] str = "d"    -> <<"d">>
      [] str = "typo" -> <<"t", "y", "p", "o">>
      [] str = "a/d"  -> <<"a", "/", "d">>
      [] str = "a"    -> <<"a">>
      [] str = "b"    -> <<"b">>
      [] str = "c"    -> <<"c">>
      [] str = "/d"   -> <<"/", "d">>
      [] str = ""     -> <<>>

Ord(ch) ==
    CASE ch = "/" -> 47
      [] ch = "a" -> 97
      [] ch = "b" -> 98
      [] ch = "c" -> 99
      [] ch = "d" -> 100
      [] ch = "o" -> 111
      [] ch = "p" -> 112
      [] ch = "t" -> 116
      [] ch = "y" -> 121

\* The strings the model writes out, and the string with given characters.
Strings == {"a/b", "a/c", "a/d", "d", "typo", "a", "b", "c", "/d", ""}

Text(chars) == CHOOSE str \in Strings : Chars(str) = chars

(***************************************************************************)
(* os.path (POSIX) on the characters of a path.                            *)
(***************************************************************************)
\* p.rfind('/') + 1
AfterLastSlash(p) ==
    IF \E i \in DOMAIN p : p[i] = "/"
    THEN CHOOSE i \in DOMAIN p :
             p[i] = "/" /\ \A j \in DOMAIN p : p[j] = "/" => j <= i
    ELSE 0

RECURSIVE RStripSlash(_)

RStripSlash(p) ==
    IF p # <<>> /\ p[Len(p)] = "/"
    THEN RStripSlash(SubSeq(p, 1, Len(p) - 1))
    ELSE p

\* os.path.split(p)[0]: everything before the last slash, without trailing
\* slashes unless it is slashes only.
SplitHead(p) ==
    LET head == SubSeq(p, 1, AfterLastSlash(p))
    IN  IF head # <<>> /\ \E i \in DOMAIN head : head[i] # "/"
        THEN RStripSlash(head)
        ELSE head

\* os.path.split(p)[1]
SplitTail(p) == SubSeq(p, AfterLastSlash(p) + 1, Len(p))

\* os.path.join(a, b)
PathJoin(a, b) ==
    IF b # <<>> /\ b[1] = "/" THEN b
    ELSE IF a = <<>> \/ a[Len(a)] = "/" THEN a \o b
    ELSE a \o <<"/">> \o b

RECURSIVE CharsLess(_, _)

CharsLess(x, y) ==
    IF y = <<>> THEN FALSE
    ELSE IF x = <<>> THEN TRUE
    ELSE IF Ord(Head(x)) # Ord(Head(y)) THEN Ord(Head(x)) < Ord(Head(y))
    ELSE CharsLess(Tail(x), Tail(y))

StrLess(a, b) == CharsLess(Chars(a), Chars(b))

\* list.sort(): a stable sort by StrLess (insertion into the sorted prefix).
RECURSIVE Insert(_, _)

Insert(sorted, x) ==
    IF sorted = <<>> THEN <<x>>
    ELSE IF StrLess(x, Head(sorted)) THEN <<x>> \o sorted
    ELSE <<Head(sorted)>> \o Insert(Tail(sorted), x)

RECURSIVE Sort(_)

Sort(list) ==
    IF list = <<>> THEN <<>>
    ELSE Insert(Sort(SubSeq(list, 1, Len(list) - 1)), list[Len(list)])

(***************************************************************************)
(* The file system under the paths the operator types.                     *)
(***************************************************************************)
\* os.path.exists(path)
Exists(path) == path \in {".", "/lib", "/ws"}

\* os.path.realpath(path)
RealPath(path) == IF path = "." THEN "/cwd" ELSE path

(***************************************************************************)
(* get_path.  A console is the lines the operator is going to type, what   *)
(* has happened so far, and how the call ended: value is what it returned, *)
(* raised the exception that left it, waiting that it sits in input() with *)
(* no line typed yet.                                                      *)
(***************************************************************************)
Console(lines) ==
    [lines |-> lines, log |-> <<>>, raised |-> NoError, value |-> None,
     waiting |-> FALSE]

ReadLine(c, e) == [Emit(c, e) EXCEPT !.lines = Tail(@)]

RECURSIVE get_path(_, _, _)

RECURSIVE confirm_loop(_, _, _, _, _, _)

confirm_loop_never_gives_up(c, role, path, confirmation, retry_times, depth) ==
    IF c.lines = <<>>
    THEN [c EXCEPT !.waiting = TRUE]
    ELSE LET typed == Head(c.lines)
             c1 == ReadLine(c, ConfirmPrompt(role, path, typed))
         IN  CASE typed = "y" ->
                      [Emit(c1, Return(path)) EXCEPT !.value = path]
               [] typed = "n" -> get_path(c1, role, depth + 1)
               [] typed = "q" -> Raise(c1, "KeyboardInterrupt")
               [] OTHER -> confirm_loop(Emit(c1, PrintInvalidOption(typed)),
                                        role, path, typed,
                                        retry_times + 1, depth)

\* The while loop of get_path (controller.py:36-47), entered with the
\* values its variables have.
confirm_loop(c, role, path, confirmation, retry_times, depth) ==
    IF confirmation \notin {"y", "n", "q"} /\ retry_times < 3
    THEN IF c.lines = <<>>
         THEN [c EXCEPT !.waiting = TRUE]
         ELSE LET typed == Head(c.lines)
                  c1 == ReadLine(c, ConfirmPrompt(role, path, typed))
              IN  CASE typed = "y" ->
                           [Emit(c1, Return(path)) EXCEPT !.value = path]
                    [] typed = "n" -> get_path(c1, role, depth + 1)
                    [] typed = "q" -> Raise(c1, "KeyboardInterrupt")
                    [] OTHER -> confirm_loop(
                                    Emit(c1, PrintInvalidOption(typed)),
                                    role, path, typed, retry_times + 1, depth)
    ELSE Raise(c, "KeyboardInterrupt")

\* depth: frames of get_path on the stack.
get_path(c, role, depth) ==
    IF depth > RecursionLimit
    THEN Raise(c, "RecursionError")
    ELSE IF c.lines = <<>>
         THEN [c EXCEPT !.waiting = TRUE]
         ELSE LET typed == Head(c.lines)
                  path == IF typed = "" THEN "." ELSE typed
                  c1 == ReadLine(c, PathPrompt(role, typed))
              IN  IF ~Exists(path)
                  THEN get_path(Emit(c1, PrintInvalidPath(role, path)),
                                role, depth + 1)
                  ELSE confirm_loop(c1, role, RealPath(path), "", 0, depth)

(***************************************************************************)
(* LibraryService, the collaborator (its code is not part of the           *)
(* controller; modelled from its contract).                                *)
(***************************************************************************)
\* is_project(name) -> bool
is_project(s, name) == name \in s.projects

\* The name filter behind list_projects; no pattern means every project.
Matches(name, pattern) ==
    CASE pattern = None  -> TRUE
      [] pattern = "*"   -> TRUE
      [] pattern = "a/*" -> name \in {"a/b", "a/c"}
      [] OTHER           -> FALSE

\* list_projects(pattern): the matching projects, in the service's order.
service_list_projects(s, pattern, order) ==
    SelectSeq(order, LAMBDA n : n \in s.projects /\ Matches(n, pattern))

\* How the service may behave during one call: the order it enumerates the
\* library in, and the projects it refuses to delete in safe mode.
Environments ==
    [order : Orders(projects), kept : SUBSET projects]

\* How the service may behave during a copy or a create: the destination
\* it picks when none is given, and whether create_project makes the
\* project, leaves the library as it is, or fails.
CopyEnvironments == [default : Names \cup {None}]

CreateEnvironments == [create : {"created", "nothing", "error"}]

\* copy_project(src, dst) -> the resolved destination, or None when the
\* service makes no copy (no such source, no destination, destination
\* taken or not a name the library can hold).
service_copy_result(s, source, destination, env) ==
    LET resolved == IF destination = None THEN env.default ELSE destination
    IN  IF source \in s.projects /\ resolved \in Names \ s.projects
        THEN resolved
        ELSE None

service_copy_project(s, source, destination, env) ==
    LET result == service_copy_result(s, source, destination, env)
    IN  IF result = None
        THEN s
        ELSE [s EXCEPT !.projects = @ \cup {result}]

\* create_project(name)
service_create_project(s, name, env) ==
    CASE env.create = "error" -> Raise(s, "ServiceError")
      [] env.create = "created" /\ name \in Names ->
             [s EXCEPT !.projects = @ \cup {name}]
      [] OTHER -> s

\* delete_projects(names, safe): removes the listed projects; in safe mode
\* the service may refuse some of them (kept).
service_delete_projects(s, names, safe, kept) ==
    [s EXCEPT !.projects = @ \ (Range(names) \ (IF safe THEN kept ELSE {}))]

(***************************************************************************)
(* LibrarianController.                                                    *)
(***************************************************************************)
_unassign_project_keeps(s) ==
    IF s.cur = None
    THEN s
    ELSE Emit(s, SlotWrite(None))

_unassign_project(s) ==
    IF s.cur = None
    THEN s
    ELSE Emit([s EXCEPT !.cur = None], SlotWrite(None))

_assign_project_unassigns_first(s, project_name) ==
    LET s0 == _unassign_project(s)
        s1 == Emit(s0, Call("is_project", project_name))
    IN  IF ~is_project(s1, project_name)
        THEN Raise(s1, "InvalidProject")
        ELSE Emit([s1 EXCEPT !.cur = project_name], SlotWrite(project_name))

_assign_project_no_unassign(s, project_name) ==
    LET s1 == Emit(s, Call("is_project", project_name))
    IN  IF ~is_project(s1, project_name)
        THEN Raise(s1, "InvalidProject")
        ELSE Emit([s1 EXCEPT !.cur = project_name], SlotWrite(project_name))

_assign_project(s, project_name) ==
    LET current == s.cur
        s1 == Emit(s, Call("is_project", project_name))
    IN  IF ~is_project(s1, project_name)
        THEN Raise(s1, "InvalidProject")
        ELSE LET s2 == IF current # None THEN _unassign_project(s1) ELSE s1
             IN  Emit([s2 EXCEPT !.cur = project_name], SlotWrite(project_name))

assign(s, project_name) == _assign_project(s, project_name)

create_assigns_first(s, project_name, env) ==
    LET a == _assign_project(s, project_name)
    IN  IF a.raised # NoError
        THEN a
        ELSE service_create_project(
                 Emit(a, Call("create_project", project_name)),
                 project_name, env)

create(s, project_name, env) ==
    LET s1 == service_create_project(
                  Emit(s, Call("create_project", project_name)),
                  project_name, env)
    IN  IF s1.raised # NoError THEN s1 ELSE _assign_project(s1, project_name)

copy_full(s, source_project_name, destination_project_name, env) ==
    LET result == service_copy_result(s, source_project_name,
                                      destination_project_name, env)
        s1 == service_copy_project(
                  Emit(s, CopyCall(source_project_name,
                                   destination_project_name, result)),
                  source_project_name, destination_project_name, env)
    IN  IF result = None
        THEN s1
        ELSE Emit(s1, Say("Copied project"))

copy_relative(s, source_project_name, destination_project_name, env) ==
    LET directory == SplitHead(Chars(source_project_name))
        destination == Text(PathJoin(directory,
                                     Chars(destination_project_name)))
    IN  copy_full(s, source_project_name, destination, env)

copy_ignores_long(s, source_project_name, destination_project_name, long, env) ==
    IF destination_project_name = None
    THEN copy_full(s, source_project_name, destination_project_name, env)
    ELSE copy_relative(s, source_project_name, destination_project_name, env)

copy(s, source_project_name, destination_project_name, long, env) ==
    IF long \/ destination_project_name = None
    THEN copy_full(s, source_project_name, destination_project_name, env)
    ELSE copy_relative(s, source_project_name, destination_project_name, env)

\* @spacing: a rule before the call and, when it returns, one after it.
spacing_before(s) == Emit(s, Say("-----"))

spacing_after(r) == IF r.raised # NoError THEN r ELSE Emit(r, Say("-----"))

display_status_keeps_stale(s) ==
    LET s1 == Emit(s, Call("is_project", s.cur))
    IN  IF s1.cur = None
        THEN Emit(s1, Say("There is no current project assigned."))
        ELSE Emit(s1, PrintCurrent(s1.cur))

display_status(s) ==
    LET s1 == Emit(s, Call("is_project", s.cur))
        s2 == IF ~is_project(s1, s.cur)
              THEN Emit([s1 EXCEPT !.cur = None], SlotWrite(None))
              ELSE s1
    IN  IF s2.cur = None
        THEN Emit(s2, Say("There is no current project assigned."))
        ELSE Emit(s2, PrintCurrent(s2.cur))

(***************************************************************************)
(* The metadata file: no file is <<>>, a file is <<its mapping>>.          *)
(***************************************************************************)
LIBRARY_PATH_KEY == "library-path"

WORKSPACE_PATH_KEY == "workspace-path"

CURRENT_PROJECT_KEY == "current-project"

CREATE_TIME_KEY == "create-time"

MODIFY_TIME_KEY == "modify-time"

SYNC_TARGET_KEY == "sync-targets"

\* data.get(key)
Get(data, key) == IF key \in DOMAIN data THEN data[key] ELSE None

update_metadata_restamps(self, time) ==
    <<(LIBRARY_PATH_KEY :> self.library_path)
      @@ (WORKSPACE_PATH_KEY :> self.workspace_path)
      @@ (CURRENT_PROJECT_KEY :> self.current_project)
      @@ (CREATE_TIME_KEY :> time)
      @@ (MODIFY_TIME_KEY :> time)
      @@ (SYNC_TARGET_KEY :> self.sync_targets)>>

\* The file update_metadata leaves; time is time.time().
update_metadata(self, time) ==
    <<(LIBRARY_PATH_KEY :> self.library_path)
      @@ (WORKSPACE_PATH_KEY :> self.workspace_path)
      @@ (CURRENT_PROJECT_KEY :> self.current_project)
      @@ (CREATE_TIME_KEY :> self.create_time)
      @@ (MODIFY_TIME_KEY :> time)
      @@ (SYNC_TARGET_KEY :> self.sync_targets)>>

\* The fields of a controller that does not exist.
NoController ==
    [library_path |-> None, workspace_path |-> None, current_project |-> None,
     create_time |-> 0, modify_time |-> 0, sync_targets |-> NoList]

\* An argument that is given, or else what get_path returns for the role.
PathOrPrompt(c, given, role) ==
    IF given # None
    THEN [c EXCEPT !.value = given]
    ELSE get_path(c, role, 1)

__init___without_check(metadata, library_path, workspace_path, sync_targets, time, lines) ==
    IF Len(metadata) = 1
    THEN LET data == metadata[1]
         IN  [Emit(Console(lines), Say("Retrieved Librarian data.")) EXCEPT
                 !.value =
                     [library_path |-> Get(data, LIBRARY_PATH_KEY),
                      workspace_path |-> Get(data, WORKSPACE_PATH_KEY),
                      current_project |-> Get(data, CURRENT_PROJECT_KEY),
                      create_time |-> Get(data, CREATE_TIME_KEY),
                      modify_time |-> Get(data, MODIFY_TIME_KEY),
                      sync_targets |-> Get(data, SYNC_TARGET_KEY)]]
    ELSE LET c1 == PathOrPrompt(Console(lines), library_path, "library")
             library == c1.value
             c2 == PathOrPrompt(c1, workspace_path, "workspace")
             workspace == c2.value
             targets == IF sync_targets = NoList \/ Len(sync_targets) = 0
                        THEN <<"UserData">>
                        ELSE sync_targets
         IN  IF c1.raised # NoError \/ c1.waiting
             THEN [c1 EXCEPT !.value = NoController]
             ELSE IF c2.raised # NoError \/ c2.waiting
             THEN [c2 EXCEPT !.value = NoController]
             ELSE [Emit(c2, Say("Initialized Librarian data.")) EXCEPT
                      !.value =
                          [library_path |-> library,
                           workspace_path |-> workspace,
                           current_project |-> None,
                           create_time |-> time,
                           modify_time |-> time,
                           sync_targets |-> targets]]

\* LibrarianController.__init__: the console it leaves, its value the
\* fields of the new controller.  metadata is the file in the working
\* directory, time is time.time(), lines what the operator will type.
__init__(metadata, library_path, workspace_path, sync_targets, time, lines) ==
    IF Len(metadata) = 1
    THEN LET data == metadata[1]
         IN  [Emit(Console(lines), Say("Retrieved Librarian data.")) EXCEPT
                 !.value =
                     [library_path |-> Get(data, LIBRARY_PATH_KEY),
                      workspace_path |-> Get(data, WORKSPACE_PATH_KEY),
                      current_project |-> Get(data, CURRENT_PROJECT_KEY),
                      create_time |-> Get(data, CREATE_TIME_KEY),
                      modify_time |-> Get(data, MODIFY_TIME_KEY),
                      sync_targets |-> Get(data, SYNC_TARGET_KEY)]]
    ELSE LET c1 == PathOrPrompt(Console(lines), library_path, "library")
             library == c1.value
             c2 == PathOrPrompt(c1, workspace_path, "workspace")
             workspace == c2.value
             targets == IF sync_targets = NoList \/ Len(sync_targets) = 0
                        THEN <<"UserData">>
                        ELSE sync_targets
         IN  IF c1.raised # NoError \/ c1.waiting
             THEN [c1 EXCEPT !.value = NoController]
             ELSE IF c2.raised # NoError \/ c2.waiting
             THEN [c2 EXCEPT !.value = NoController]
             ELSE IF library = workspace
             THEN [Raise(c2, "FolderCollision") EXCEPT !.value = NoController]
             ELSE [Emit(c2, Say("Initialized Librarian data.")) EXCEPT
                      !.value =
                          [library_path |-> library,
                           workspace_path |-> workspace,
                           current_project |-> None,
                           create_time |-> time,
                           modify_time |-> time,
                           sync_targets |-> targets]]

pull_pushes(s) ==
    IF s.cur # None
    THEN Emit(s, Call("push_project", s.cur))
    ELSE s

pull(s) ==
    IF s.cur # None
    THEN Emit(s, Call("pull_project", s.cur))
    ELSE s

push(s) ==
    IF s.cur # None
    THEN Emit(s, Call("push_project", s.cur))
    ELSE s

\* How many times the call has read a line from the console.
Prompts(s) == Len(SelectSeq(s.log, LAMBDA e : e.ev = "input"))

RECURSIVE load_project(_, _, _)

load_project_asks_when_same(s, project_name, answers) ==
    LET current == s.cur
        confirmation == answers[Prompts(s) + 1]
        s1 == Emit(s, Prompt(confirmation))
    IN  IF current = None
        THEN LET a == _assign_project(s, project_name)
             IN  IF a.raised # NoError THEN a ELSE pull(a)
        ELSE IF confirmation # "y"
             THEN s1
             ELSE load_project(
                      Emit([s1 EXCEPT !.cur = None], SlotWrite(None)),
                      project_name, answers)

load_project_clears_before_asking(s, project_name, answers) ==
    LET current == s.cur
        s0 == Emit([s EXCEPT !.cur = None], SlotWrite(None))
        confirmation == answers[Prompts(s) + 1]
        s1 == Emit(s0, Prompt(confirmation))
    IN  IF current = None \/ current = project_name
        THEN LET a == _assign_project(s, project_name)
             IN  IF a.raised # NoError THEN a ELSE pull(a)
        ELSE IF confirmation # "y"
             THEN s1
             ELSE load_project(s1, project_name, answers)

load_project_pushes_old(s, project_name, answers) ==
    LET current == s.cur
        confirmation == answers[Prompts(s) + 1]
        s1 == Emit(s, Prompt(confirmation))
    IN  IF current = None \/ current = project_name
        THEN LET a == _assign_project(s, project_name)
             IN  IF a.raised # NoError THEN a ELSE pull(a)
        ELSE IF confirmation # "y"
             THEN s1
             ELSE load_project(
                      Emit([push(s1) EXCEPT !.cur = None], SlotWrite(None)),
                      project_name, answers)

\* answers: the lines the operator will type, in order.
load_project(s, project_name, answers) ==
    LET current == s.cur
    IN  IF current = None \/ current = project_name
        THEN LET a == _assign_project(s, project_name)
             IN  IF a.raised # NoError THEN a ELSE pull(a)
        ELSE IF Prompts(s) >= MaxPrompts
             THEN Raise(s, "EOFError")
             ELSE LET confirmation == answers[Prompts(s) + 1]
                      s1 == Emit(s, Prompt(confirmation))
                  IN  IF confirmation # "y"
                      THEN s1
                      ELSE load_project(
                               Emit([s1 EXCEPT !.cur = None], SlotWrite(None)),
                               project_name, answers)

RECURSIVE PrintAll(_, _)

PrintAll(s, list) ==
    IF list = <<>> THEN s
    ELSE PrintAll(Emit(s, PrintProject(Head(list))), Tail(list))

list_projects_unsorted(s, pattern, env) ==
    LET found == service_list_projects(s, pattern, env.order)
        s1 == Emit(s, ListCall(pattern, found))
    IN  IF found = <<>>
        THEN Emit(s1, Say("No projects found in library."))
        ELSE PrintAll(s1, found)

list_projects(s, pattern, env) ==
    LET found == service_list_projects(s, pattern, env.order)
        s1 == Emit(s, ListCall(pattern, found))
        sorted == Sort(found)
    IN  IF sorted = <<>>
        THEN Emit(s1, Say("No projects found in library."))
        ELSE PrintAll(s1, sorted)

RECURSIVE delete_projects(_, _, _, _, _, _)

delete_projects_keeps_slot(s, project_names, pattern, safe, env, depth) ==
    IF depth > RecursionLimit
    THEN Raise(s, "RecursionError")
    ELSE IF Len(project_names) = 0
         THEN LET listing == service_list_projects(s, pattern, env.order)
              IN  delete_projects(Emit(s, ListCall(pattern, listing)),
                                  listing, None, TRUE, env, depth + 1)
         ELSE service_delete_projects(
                  Emit(s, DeleteCall(project_names, safe)),
                  project_names, safe, env.kept)

delete_projects_always_lists(s, project_names, pattern, safe, env, depth) ==
    LET listing == service_list_projects(s, pattern, env.order)
        s1 == service_delete_projects(
                  Emit(Emit(s, ListCall(pattern, listing)),
                       DeleteCall(project_names, safe)),
                  project_names, safe, env.kept)
    IN  IF s1.cur \in Range(project_names)
        THEN _unassign_project(s1)
        ELSE s1

\* env: how the service behaves during this call (see Environments);
\* depth: frames of delete_projects on the stack.
delete_projects(s, project_names, pattern, safe, env, depth) ==
    IF depth > RecursionLimit
    THEN Raise(s, "RecursionError")
    ELSE IF Len(project_names) = 0
         THEN LET listing == service_list_projects(s, pattern, env.order)
              IN  delete_projects(Emit(s, ListCall(pattern, listing)),
                                  listing, None, TRUE, env, depth + 1)
         ELSE LET s1 == service_delete_projects(
                            Emit(s, DeleteCall(project_names, safe)),
                            project_names, safe, env.kept)
              IN  IF s1.cur \in Range(project_names)
                  THEN _unassign_project(s1)
                  ELSE s1

(***************************************************************************)
(* The state machine.                                                      *)
(***************************************************************************)
\* The controller state a call starts from: the log and the error of the
\* previous call are gone.
Start(cur, lib) ==
    [cur |-> cur, projects |-> lib, log |-> <<>>, raised |-> NoError]

Entry == Start(current_project, projects)

\* The last call made: the method, its arguments, and for delete_projects
\* what the service listed for the pattern as the call began.
Operation(name, arg) ==
    [name |-> name, arg |-> arg, answers |-> <<>>, names |-> <<>>,
     pattern |-> None, safe |-> TRUE, listing |-> <<>>,
     dst |-> None, long |-> FALSE,
     library_path |-> None, workspace_path |-> None, sync_targets |-> NoList]

\* The call has run: its result becomes the state, pre keeps what the slot
\* and the library were when it started.
Before == [cur |-> current_project, projects |-> projects, file |-> file]

Finish(s, o) ==
    /\ running
    /\ current_project' = s.cur
    /\ projects' = s.projects
    /\ log' = s.log
    /\ raised' = s.raised
    /\ op' = o
    /\ pre' = Before
    /\ UNCHANGED <<running, meta, file, now, firstCreate, persistedAt>>

\* The controller's fields as one record.
Self == [meta EXCEPT !.current_project = current_project]

\* A controller right after __init__ on a first run (no metadata file):
\* the slot is empty; the library holds any set of projects.
Init ==
    /\ current_project = None
    /\ projects \in SUBSET Names
    /\ log = <<>>
    /\ raised = NoError
    /\ op = [Operation("__init__", None) EXCEPT
                 !.library_path = "/lib", !.workspace_path = "/ws"]
    /\ pre = [cur |-> None, projects |-> projects, file |-> <<>>]
    /\ lastAssigned = None
    /\ running = TRUE
    /\ meta = __init__(<<>>, "/lib", "/ws", NoList, 0, <<>>).value
    /\ file = <<>>
    /\ now = 0
    /\ firstCreate = 0
    /\ persistedAt = 0

Assign ==
    \E name \in CallerNames :
        LET s == assign(Entry, name)
        IN  /\ Finish(s, Operation("assign", name))
            /\ lastAssigned' = IF s.raised = NoError THEN name ELSE lastAssigned

Unassign ==
    /\ Finish(_unassign_project(Entry), Operation("unassign", None))
    /\ lastAssigned' = None

Pull ==
    /\ Finish(pull(Entry), Operation("pull", None))
    /\ UNCHANGED lastAssigned

Push ==
    /\ Finish(push(Entry), Operation("push", None))
    /\ UNCHANGED lastAssigned

\* lastAssigned is kept by assign and unassign from their outcomes; the other
\* operations that write the slot leave in it what they left in the slot.
Load ==
    \E name \in CallerNames, answers \in [1..MaxPrompts -> Answers] :
        LET s == load_project(Entry, name, answers)
        IN  /\ Finish(s, [Operation("load_project", name) EXCEPT
                              !.answers = answers])
            /\ lastAssigned' = s.cur

Delete ==
    \E names \in NameLists, pattern \in Patterns, safe \in BOOLEAN,
       env \in Environments :
        LET s == delete_projects(Entry, names, pattern, safe, env, 1)
        IN  /\ Finish(s, [Operation("delete_projects", None) EXCEPT
                              !.names = names, !.pattern = pattern,
                              !.safe = safe,
                              !.listing = IF Len(names) = 0
                                          THEN service_list_projects(
                                                   Entry, pattern, env.order)
                                          ELSE <<>>])
            /\ lastAssigned' = s.cur

List ==
    \E pattern \in Patterns, env \in Environments :
        /\ env.kept = {}
        /\ Finish(spacing_after(
                      list_projects(spacing_before(Entry), pattern, env)),
                  [Operation("list_projects", None) EXCEPT
                      !.pattern = pattern,
                      !.listing = service_list_projects(
                                      Entry, pattern, env.order)])
        /\ UNCHANGED lastAssigned

Create ==
    \E name \in CallerNames, env \in CreateEnvironments :
        LET s == create(Entry, name, env)
        IN  /\ Finish(s, Operation("create", name))
            /\ lastAssigned' = s.cur

\* The service's default destination matters only when none is given.
Copy ==
    \E source \in CallerNames, destination \in Destinations,
       long \in BOOLEAN, env \in CopyEnvironments :
        /\ destination # None => env.default = None
        /\ Finish(copy(Entry, source, destination, long, env),
                  [Operation("copy", source) EXCEPT
                      !.dst = destination, !.long = long])
        /\ UNCHANGED lastAssigned

DisplayStatus ==
    LET s == spacing_after(display_status(spacing_before(Entry)))
    IN  /\ Finish(s, Operation("display_status", None))
        /\ lastAssigned' = s.cur

Next ==
    \/ Assign \/ Unassign \/ Pull \/ Push \/ Load \/ Delete \/ List
    \/ Create \/ Copy \/ DisplayStatus

(***************************************************************************)
(* The life cycle: the process starts in a working directory without a     *)
(* metadata file, builds its controller, works, persists, exits, and       *)
(* starts again; the library may change while no process runs.             *)
(***************************************************************************)
InitLifeCycle ==
    /\ current_project = None
    /\ projects = Names
    /\ log = <<>>
    /\ raised = NoError
    /\ op = Operation("boot", None)
    /\ pre = [cur |-> None, projects |-> projects, file |-> <<>>]
    /\ lastAssigned = None
    /\ running = FALSE
    /\ meta = NoController
    /\ file = <<>>
    /\ now = 0
    /\ firstCreate = 0
    /\ persistedAt = 0

\* The constructor has run to its end with the given arguments and lines.
Constructed(library_path, workspace_path, sync_targets, lines) ==
    LET c == __init__(file, library_path, workspace_path, sync_targets,
                      now, lines)
    IN  /\ ~running
        /\ ~c.waiting
        /\ c.lines = <<>>
        /\ running' = (c.raised = NoError)
        /\ meta' = c.value
        /\ current_project' = c.value.current_project
        /\ log' = c.log
        /\ raised' = c.raised
        /\ op' = [Operation("__init__", None) EXCEPT
                      !.library_path = library_path,
                      !.workspace_path = workspace_path,
                      !.sync_targets = sync_targets,
                      !.answers = lines]
        /\ pre' = Before
        /\ lastAssigned' = c.value.current_project
        /\ UNCHANGED <<projects, file, now, firstCreate, persistedAt>>

\* The operator types two lines for each path the constructor asks for.
Construct ==
    \E library_path \in PathArgs, workspace_path \in PathArgs,
       sync_targets \in TargetArgs,
       lines \in UNION {[1..n -> StartupLines] : n \in {0, 2, 4}} :
        Constructed(library_path, workspace_path, sync_targets, lines)

\* A start with both paths given and the default sync targets.
ConstructGiven == Constructed("/lib", "/ws", NoList, <<>>)

UpdateMetadata ==
    /\ running
    /\ file' = update_metadata(Self, now)
    /\ firstCreate' = IF file = <<>>
                      THEN file'[1][CREATE_TIME_KEY]
                      ELSE firstCreate
    /\ persistedAt' = now
    /\ log' = <<>>
    /\ raised' = NoError
    /\ op' = Operation("update_metadata", None)
    /\ pre' = Before
    /\ UNCHANGED <<current_project, projects, lastAssigned, running, meta,
                   now>>

\* The process ends; its controller is gone.
Exit ==
    /\ running
    /\ running' = FALSE
    /\ meta' = NoController
    /\ current_project' = None
    /\ lastAssigned' = None
    /\ log' = <<>>
    /\ raised' = NoError
    /\ op' = Operation("exit", None)
    /\ pre' = Before
    /\ UNCHANGED <<projects, file, now, firstCreate, persistedAt>>

Tick ==
    /\ now < MaxTime
    /\ now' = now + 1
    /\ UNCHANGED <<current_project, projects, log, raised, op, pre,
                   lastAssigned, running, meta, file, firstCreate,
                   persistedAt>>

\* Between runs a project is added to the library or removed from it.
LibraryChanges ==
    /\ ~running
    /\ \E name \in Names :
           projects' = IF name \in projects
                       THEN projects \ {name}
                       ELSE projects \cup {name}
    /\ UNCHANGED <<current_project, log, raised, op, pre, lastAssigned,
                   running, meta, file, now, firstCreate, persistedAt>>

NextLifeCycle ==
    \/ Construct \/ UpdateMetadata \/ Exit \/ Tick \/ Assign \/ Unassign

SpecLifeCycle == InitLifeCycle /\ [][NextLifeCycle]_vars

\* Runs that assign, persist, exit and start again around a library that
\* changes between them, and display the status.
NextStatus ==
    \/ ConstructGiven \/ UpdateMetadata \/ Exit \/ LibraryChanges
    \/ Assign \/ Unassign \/ DisplayStatus

SpecStatus == InitLifeCycle /\ [][NextStatus]_vars

\* One startup that asks for the library path, with anything typed.
FirstRun ==
    /\ op.name = "boot"
    /\ \E lines \in UNION {[1..n -> Lines] : n \in 0..MaxLines} :
           LET c == get_path(Console(lines), "library", 1)
           IN  /\ c.lines = <<>>
               /\ log' = c.log
               /\ raised' = c.raised
               /\ op' = [Operation("get_path", "library") EXCEPT
                             !.answers = lines]
               /\ pre' = Before
               /\ UNCHANGED <<current_project, projects, lastAssigned,
                              running, meta, file, now, firstCreate,
                              persistedAt>>

SpecPath == InitLifeCycle /\ [][FirstRun]_vars

\* Only assign and unassign are called.
NextAssign == Assign \/ Unassign

SpecAssign == Init /\ [][NextAssign]_vars

Spec == Init /\ [][Next]_vars

(***************************************************************************)
(* Properties.                                                             *)
(***************************************************************************)
\* The service calls of a log, and its calls of one service function.
ServiceCalls(l) ==
    SelectSeq(l, LAMBDA e : e.ev \in {"is_project", "create_project",
                                      "copy_project", "pull_project",
                                      "push_project", "list_projects",
                                      "delete_projects"})

CallsOf(l, fn) == SelectSeq(l, LAMBDA e : e.ev = fn)

SlotWrites(l) == CallsOf(l, "current_project")

\* C1: assign(name) with a name the service does not recognise raises
\* InvalidProject, leaves current_project what it was before the call, and
\* does nothing but ask the service: the slot is never written (no unassign).
C1_FailedAssignLeavesSlot ==
    (op.name = "assign" /\ op.arg \notin pre.projects) =>
        /\ raised = "InvalidProject"
        /\ current_project = pre.cur
        /\ log = <<Call("is_project", op.arg)>>

C1_Witness ==
    /\ op.name = "assign"
    /\ op.arg \notin pre.projects
    /\ pre.cur # None
    /\ raised = "InvalidProject"

\* C2: over assign/unassign calls from a fresh controller, current_project is
\* none or the name most recently assigned with success and not since
\* unassigned; a failed assign leaves it, unassign of an empty slot does
\* nothing.
C2_SlotIsLastAssigned ==
    /\ current_project = lastAssigned
    /\ (op.name = "assign" /\ raised # NoError) => current_project = pre.cur
    /\ (op.name = "unassign" /\ pre.cur = None) =>
           (current_project = None /\ log = <<>> /\ raised = NoError)

C2_Witness ==
    /\ op.name = "assign"
    /\ raised = "InvalidProject"
    /\ lastAssigned \in Names
    /\ current_project = lastAssigned

\* C3: a successful assign(X) on a non-empty slot (X itself included) ends
\* with current_project = X, having first cleared the slot and then set it.
C3_ReassignClearsThenSets ==
    (op.name = "assign" /\ raised = NoError /\ pre.cur # None) =>
        /\ current_project = op.arg
        /\ log = <<Call("is_project", op.arg),
                   SlotWrite(None), SlotWrite(op.arg)>>

C3_Witness ==
    /\ op.name = "assign"
    /\ raised = NoError
    /\ pre.cur = op.arg
    /\ current_project = op.arg
    /\ SlotWrites(log) = <<SlotWrite(None), SlotWrite(op.arg)>>

\* C4: load(X) on an empty slot, or on a slot holding X, is assign(X) followed
\* by pull(): no prompt, the same final state, and the service sees
\* is_project(X) then one pull_project(X), or is_project(X) alone when the
\* assign fails.
C4_LoadIsAssignThenPull ==
    (op.name = "load_project" /\ pre.cur \in {None, op.arg}) =>
        LET a == assign(Start(pre.cur, pre.projects), op.arg)
            r == IF a.raised # NoError THEN a ELSE pull(a)
        IN  /\ CallsOf(log, "input") = <<>>
            /\ current_project = r.cur
            /\ projects = r.projects
            /\ raised = r.raised
            /\ log = r.log
            /\ ServiceCalls(log) =
                   IF op.arg \in pre.projects
                   THEN <<Call("is_project", op.arg),
                          Call("pull_project", op.arg)>>
                   ELSE <<Call("is_project", op.arg)>>

C4_Witness ==
    /\ op.name = "load_project"
    /\ pre.cur = None
    /\ current_project = op.arg
    /\ ServiceCalls(log) = <<Call("is_project", op.arg),
                             Call("pull_project", op.arg)>>

\* C5: load(X) while another project Y is current, answered with anything
\* but "y", changes nothing: the slot still holds Y and no service call is
\* made.
C5_DeclinedLoadChangesNothing ==
    (/\ op.name = "load_project"
     /\ pre.cur \notin {None, op.arg}
     /\ op.answers[1] # "y") =>
        /\ current_project = pre.cur
        /\ projects = pre.projects
        /\ raised = NoError
        /\ log = <<Prompt(op.answers[1])>>

C5_Witness ==
    /\ op.name = "load_project"
    /\ pre.cur \in Names \ {op.arg}
    /\ op.arg \in projects
    /\ op.answers[1] = "n"
    /\ current_project = pre.cur

\* C6: load(X) while another project Y is current, answered "y", X known:
\* one prompt, the slot is cleared, the retry assigns without asking again,
\* and the call ends with current_project = X after one pull_project(X) and
\* nothing pulled or pushed for Y.
C6_ConfirmedLoadOverwrites ==
    (/\ op.name = "load_project"
     /\ pre.cur \notin {None, op.arg}
     /\ op.answers[1] = "y"
     /\ op.arg \in pre.projects) =>
        /\ current_project = op.arg
        /\ raised = NoError
        /\ log = <<Prompt("y"), SlotWrite(None),
                   Call("is_project", op.arg), SlotWrite(op.arg),
                   Call("pull_project", op.arg)>>

C6_Witness ==
    /\ op.name = "load_project"
    /\ pre.cur \in Names \ {op.arg}
    /\ op.answers[1] = "y"
    /\ current_project = op.arg
    /\ CallsOf(log, "pull_project") = <<Call("pull_project", op.arg)>>

\* C7: delete_projects([], pattern) lists the pattern once and hands the
\* service's delete_projects exactly the names that listing returned; the
\* slot is none afterwards if it held one of them, unchanged otherwise.
C7_DeleteResolvesPatternOnce ==
    (op.name = "delete_projects" /\ op.names = <<>>) =>
        /\ CallsOf(log, "list_projects") =
               <<ListCall(op.pattern, op.listing)>>
        /\ \A i \in DOMAIN log :
               log[i].ev = "delete_projects" => log[i].names = op.listing
        /\ op.listing # <<>> => Len(CallsOf(log, "delete_projects")) = 1
        /\ current_project =
               IF pre.cur \in Range(op.listing) THEN None ELSE pre.cur

\* C8: delete with a non-empty explicit name list never lists, calls the
\* service's delete_projects once with exactly those names, and leaves the
\* slot none if it held one of them, unchanged otherwise.
C8_ExplicitNamesIgnorePattern ==
    (op.name = "delete_projects" /\ op.names # <<>>) =>
        /\ ServiceCalls(log) = <<DeleteCall(op.names, op.safe)>>
        /\ raised = NoError
        /\ current_project =
               IF pre.cur \in Range(op.names) THEN None ELSE pre.cur

C8_Witness ==
    /\ op.name = "delete_projects"
    /\ op.names # <<>>
    /\ op.pattern = "*"
    /\ pre.cur \in Range(op.names)
    /\ Cardinality(pre.projects) > Len(op.names)
    /\ current_project = None
    /\ ServiceCalls(log) = <<DeleteCall(op.names, op.safe)>>

\* C9: delete with an empty name list and a pattern that matches no project
\* ends without an error, deletes nothing and leaves current_project alone.
C9_NoMatchIsNoOp ==
    (op.name = "delete_projects" /\ op.names = <<>> /\ op.listing = <<>>) =>
        /\ raised = NoError
        /\ projects = pre.projects
        /\ current_project = pre.cur
        /\ CallsOf(log, "delete_projects") = <<>>

\* C10: push() and pull() call the service only when a project is current,
\* then once and for that project (push_project for push, pull_project for
\* pull); with an empty slot they call nothing and raise nothing; the slot
\* is unchanged either way.
C10_SyncOnlyCurrentProject ==
    /\ op.name = "pull" =>
           log = IF pre.cur = None
                 THEN <<>>
                 ELSE <<Call("pull_project", pre.cur)>>
    /\ op.name = "push" =>
           log = IF pre.cur = None
                 THEN <<>>
                 ELSE <<Call("push_project", pre.cur)>>
    /\ op.name \in {"pull", "push"} =>
           /\ current_project = pre.cur
           /\ projects = pre.projects
           /\ pre.cur = None => raised = NoError

C10_Witness ==
    /\ op.name = "pull"
    /\ pre.cur \in Names
    /\ log = <<Call("pull_project", current_project)>>

\* The names a log printed as the lines of a listing, in order.
Printed(l) ==
    [i \in 1..Len(CallsOf(l, "print_project")) |->
        CallsOf(l, "print_project")[i].arg]

\* C11: list_projects prints the names the service returned for the pattern
\* in lexicographic order, each once, none added or dropped; it leaves
\* current_project and the library alone and calls only the listing.
C11_ListIsSortedAndReadOnly ==
    op.name = "list_projects" =>
        /\ \A i, j \in DOMAIN Printed(log) :
               i < j => StrLess(Printed(log)[i], Printed(log)[j])
        /\ Range(Printed(log)) = Range(op.listing)
        /\ Len(Printed(log)) = Len(op.listing)
        /\ ServiceCalls(log) = <<ListCall(op.pattern, op.listing)>>
        /\ current_project = pre.cur
        /\ projects = pre.projects
        /\ raised = NoError

C11_Witness ==
    /\ op.name = "list_projects"
    /\ op.listing = <<"d", "a/c", "a/b">>
    /\ Printed(log) = <<"a/b", "a/c", "d">>
    /\ current_project = "d"

\* C12: copy(src, dst, long) calls the service's copy_project once, with src
\* unchanged, and with dst as given when long is set or dst is not given,
\* otherwise with the directory of src joined with dst: copy("a/b", "c")
\* copies to "a/c".
C12_CopyDestination ==
    op.name = "copy" =>
        LET calls == ServiceCalls(log)
            relative == Text(PathJoin(SplitHead(Chars(op.arg)),
                                      Chars(op.dst)))
        IN  /\ Len(calls) = 1
            /\ calls[1].ev = "copy_project"
            /\ calls[1].src = op.arg
            /\ calls[1].dst = IF op.long \/ op.dst = None
                              THEN op.dst
                              ELSE relative
            /\ (op.arg = "a/b" /\ op.dst = "c" /\ ~op.long) =>
                   calls[1].dst = "a/c"
            /\ (op.arg = "d" /\ op.dst = "c" /\ ~op.long) =>
                   calls[1].dst = "c"

C12_Witness ==
    /\ op.name = "copy"
    /\ op.arg = "a/b"
    /\ op.dst = "c"
    /\ ~op.long
    /\ "a/c" \notin pre.projects
    /\ "a/c" \in projects
    /\ ServiceCalls(log) = <<CopyCall("a/b", "a/c", "a/c")>>

\* C13: create(name) calls create_project(name) before anything of the
\* assign; when the service then recognises name the call ends with
\* current_project = name, a project that was current being unassigned
\* first; when create_project raises, current_project is unchanged.
C13_CreateThenAssign ==
    op.name = "create" =>
        /\ log[1] = Call("create_project", op.arg)
        /\ raised = "ServiceError" =>
               (current_project = pre.cur /\ Len(log) = 1)
        /\ (raised # "ServiceError" /\ op.arg \in projects) =>
               /\ current_project = op.arg
               /\ raised = NoError
               /\ log = <<Call("create_project", op.arg),
                          Call("is_project", op.arg)>>
                        \o (IF pre.cur # None
                            THEN <<SlotWrite(None)>> ELSE <<>>)
                        \o <<SlotWrite(op.arg)>>

C13_Witness ==
    /\ op.name = "create"
    /\ op.arg \notin pre.projects
    /\ op.arg \in projects
    /\ pre.cur \in Names \ {op.arg}
    /\ current_project = op.arg

\* What get_path returned during the last call, in order.
Returns(l) ==
    [i \in 1..Len(CallsOf(l, "return")) |-> CallsOf(l, "return")[i].arg]

\* The paths the constructor compares: the argument, or what get_path
\* returned for it (the library is asked for first).
LibraryPathUsed ==
    IF op.library_path # None THEN op.library_path ELSE Returns(log)[1]

WorkspacePathUsed ==
    IF op.workspace_path # None THEN op.workspace_path
    ELSE Returns(log)[Len(Returns(log))]

\* The fields a metadata file holds, as a controller reads them.
FieldsOf(data) ==
    [library_path |-> Get(data, LIBRARY_PATH_KEY),
     workspace_path |-> Get(data, WORKSPACE_PATH_KEY),
     current_project |-> Get(data, CURRENT_PROJECT_KEY),
     create_time |-> Get(data, CREATE_TIME_KEY),
     modify_time |-> Get(data, MODIFY_TIME_KEY),
     sync_targets |-> Get(data, SYNC_TARGET_KEY)]

\* C14 as stated: a construction whose library_path argument equals its
\* workspace_path argument fails with FolderCollision, with or without a
\* metadata file, and no controller has equal paths.
C14_CollisionAlways ==
    /\ (op.name = "__init__" /\ op.library_path # None
            /\ op.library_path = op.workspace_path) =>
           raised = "FolderCollision"
    /\ running => meta.library_path # meta.workspace_path

\* C14: without a metadata file, a construction that got both its paths
\* (given or typed) fails with FolderCollision exactly when they are equal,
\* whatever the sync targets; with a metadata file the arguments are not
\* looked at and the controller takes the file's fields; a controller built
\* either way, the file being one a controller persisted, has a library path
\* different from its workspace path.
C14_CollisionOnFirstRun ==
    /\ (op.name = "__init__" /\ pre.file = <<>>
            /\ raised \in {NoError, "FolderCollision"}) =>
           (raised = "FolderCollision"
                <=> LibraryPathUsed = WorkspacePathUsed)
    /\ (op.name = "__init__" /\ pre.file # <<>>) =>
           /\ raised = NoError
           /\ running
           /\ meta = FieldsOf(pre.file[1])
    /\ running => meta.library_path # meta.workspace_path

\* Both paths typed, the same one twice, and another sync target given.
C14_Witness ==
    /\ op.name = "__init__"
    /\ pre.file = <<>>
    /\ op.library_path = None
    /\ op.workspace_path = None
    /\ op.sync_targets = <<"Saves">>
    /\ Returns(log) = <<"/lib", "/lib">>
    /\ raised = "FolderCollision"
    /\ ~running

\* C15: across controller actions, update_metadata calls and restarts, a
\* metadata file holds exactly the six fields, those of the controller that
\* persisted it, with modify-time the time of that persist and create-time
\* the one written at the first persist; the file differs from what it was
\* before the last call only if that call was update_metadata.
C15_PersistKeepsCreateTime ==
    /\ file # <<>> =>
           /\ Len(file) = 1
           /\ DOMAIN file[1] = {LIBRARY_PATH_KEY, WORKSPACE_PATH_KEY,
                                CURRENT_PROJECT_KEY, CREATE_TIME_KEY,
                                MODIFY_TIME_KEY, SYNC_TARGET_KEY}
           /\ file[1][MODIFY_TIME_KEY] = persistedAt
           /\ file[1][CREATE_TIME_KEY] = firstCreate
    /\ op.name = "update_metadata" =>
           /\ file # <<>>
           /\ FieldsOf(file[1]) = [Self EXCEPT !.modify_time = persistedAt]
    /\ op.name # "update_metadata" => file = pre.file

\* A controller rehydrated from a file persisted later than it was created
\* has persisted again.
C15_Witness ==
    /\ op.name = "update_metadata"
    /\ pre.file # <<>>
    /\ meta.modify_time > meta.create_time
    /\ file[1][CREATE_TIME_KEY] = 0
    /\ file[1][MODIFY_TIME_KEY] = 1
    /\ file[1][CURRENT_PROJECT_KEY] # pre.file[1][CURRENT_PROJECT_KEY]

\* The path prompts of a log, and the last of them.
PathPrompts(l) == {i \in DOMAIN l : l[i].ev = "input_path"}

LastPathPrompt(l) ==
    CHOOSE i \in PathPrompts(l) : \A j \in PathPrompts(l) : j <= i

\* The path get_path checks for the line typed at prompt i.
Entered(l, i) == IF l[i].arg = "" THEN "." ELSE l[i].arg

\* The invalid confirmations reported after path prompt i and before the
\* next path prompt.
InvalidFor(l, i) ==
    {j \in DOMAIN l :
        /\ j > i
        /\ l[j].ev = "print_invalid_option"
        /\ \A k \in PathPrompts(l) : ~(i < k /\ k < j)}

C17_InvalidProjectLeavesSlot ==
    (op.name \in {"load_project", "create"} /\ raised = "InvalidProject") =>
        current_project = pre.cur

\* C18: the safe flag the service's delete_projects receives is the one the
\* caller of delete passed, with explicit names and with names resolved
\* from the pattern alike.
C18_SafeReachesService ==
    op.name = "delete_projects" =>
        \A i \in DOMAIN log :
            log[i].ev = "delete_projects" => log[i].safe = op.safe

\* C19: from a fresh controller, with the library changed by controller
\* calls only, a current project is always one the service recognises.
C19_CurrentProjectExists ==
    current_project # None => is_project(Entry, current_project)

C19_Witness ==
    /\ op.name = "delete_projects"
    /\ pre.cur \in Names
    /\ pre.cur \in pre.projects \ projects
    /\ Cardinality(projects) > 0
    /\ current_project = None

\* C20: display_status leaves the slot empty exactly when the service does
\* not recognise what the slot held as the call began, and leaves the slot
\* as it was otherwise; the only service call is the is_project question,
\* the library is untouched, and nothing is raised.
C20_StatusDropsUnknown ==
    op.name = "display_status" =>
        /\ current_project = IF pre.cur \in pre.projects
                             THEN pre.cur
                             ELSE None
        /\ SlotWrites(log) = IF pre.cur \in pre.projects
                             THEN <<>>
                             ELSE <<SlotWrite(None)>>
        /\ ServiceCalls(log) = <<Call("is_project", pre.cur)>>
        /\ projects = pre.projects
        /\ raised = NoError

\* The slot held a name read back from the metadata file whose project
\* has left the library since.
C20_Witness ==
    /\ op.name = "display_status"
    /\ file # <<>>
    /\ pre.cur = file[1][CURRENT_PROJECT_KEY]
    /\ pre.cur \in Names \ pre.projects
    /\ current_project = None
    /\ log[Len(log)] = Say("-----")

====
